---- MODULE Spec2Model ----
(***************************************************************************)
(* SmartBookmarks: the vector store of bookmarks/utils.py (a FAISS flat L2  *)
(* index file plus a JSON position -> bookmark id map), the functions that  *)
(* load, extend, persist and search it, and the views that run             *)
(* process_bookmark on a bookmark.                                         *)
(*                                                                         *)
(* Vectors are sequences of small integers (exactly representable as      *)
(* float32); the FAISS library calls are modelled by what the flat L2      *)
(* index does: append a row, return the k rows nearest to a query.         *)
(***************************************************************************)
EXTENDS Integers, Sequences, FiniteSets, TLC

\* ------------------------------------------------------------------ bounds
\* Largest number of add_embedding_to_index calls started in one behaviour.
MaxAdds == 3
\* Largest k passed to search_embeddings.
MaxK == 2
\* Largest number of process_bookmark runs that reach add_embedding_to_index.
MaxRuns == 2
\* Largest number of add_embedding_to_index calls started by concurrent workers.
MaxConcAdds == 2

\* ------------------------------------------------------------ input domains
\* Bookmark ids handed to add_embedding_to_index by a direct caller.
BookmarkIds == {1, 2}
\* Embeddings handed to add_embedding_to_index: two 2-D vectors and one 1-D
\* vector (a dimensionality that differs from a 2-D index).
Embeddings == {<<1, 0>>, <<0, 1>>, <<1>>}
\* Query vectors handed to search_embeddings.
Queries == Embeddings \cup {<<0, 0>>, <<2, 1>>}

\* ------------------------------------------------------------ Python values
\* None, and a path for which Path.exists() is False: the empty tuple. A
\* present value x is the 1-tuple <<x>>.
None == <<>>
NoFile == <<>>
Some(x) == <<x>>
Get(o) == o[1]

Min(a, b) == IF a <= b THEN a ELSE b
Abs(x) == IF x < 0 THEN -x ELSE x

RECURSIVE Pow2(_)
Pow2(n) == IF n = 0 THEN 1 ELSE 2 * Pow2(n - 1)

\* The smallest power of two u with x \div u < 2^24: the spacing of float32
\* values around the integer x >= 0.
RECURSIVE Ulp(_, _)
Ulp(x, u) == IF x \div u < Pow2(24) THEN u ELSE Ulp(x, 2 * u)

\* dtype="float32" on an integer-valued coordinate: exact below 2^24, else
\* rounded to the nearest multiple of the spacing, ties to the even multiple.
Float32(x) ==
    LET a == Abs(x)
        u == Ulp(a, 1)
        q == a \div u
        r == a % u
        up == (2 * r > u) \/ (2 * r = u /\ q % 2 = 1)
        m == (IF up THEN q + 1 ELSE q) * u
    IN  IF x < 0 THEN -m ELSE m

\* np.asarray([emb], dtype="float32")[0]: the one row of the (1, len(emb)) array.
AsFloat32(emb) == [i \in 1..Len(emb) |-> Float32(emb[i])]

\* str(i) for an integer i >= 0: its decimal digits, most significant first.
RECURSIVE Str(_)
Str(n) == IF n < 10 THEN <<n>> ELSE Str(n \div 10) \o <<n % 10>>

\* ------------------------------------------------------------------- JSON
\* json.dump of a dict with str keys: the object's members, as <<key, value>>.
JsonDump(vec_map) == {<<key, vec_map[key]>> : key \in DOMAIN vec_map}

\* json.load of such an object: the dict of its members.
JsonLoad(text) ==
    [key \in {m[1] : m \in text} |-> (CHOOSE m \in text : m[1] = key)[2]]

\* The file right after open(path, "w"), before anything is written to it: zero
\* bytes, which is no JSON document (a document's members are pairs).
Truncated == {<<>>}

\* json.load returns for a document and raises JSONDecodeError for anything else.
JsonLoadOk(text) == <<>> \notin text

\* The dict literal {}.
EmptyDict == [key \in {} |-> 0]

\* Mutant of DictSet: the dict is replaced by one holding only the new key.
DictSetFresh(d, key, value) == [x \in {key} |-> value]

\* d[key] = value on a dict.
DictSet(d, key, value) ==
    [x \in DOMAIN d \cup {key} |-> IF x = key THEN value ELSE d[x]]

\* ------------------------------------------------------------------ FAISS
\* faiss.IndexFlatL2(d): an empty flat index of dimensionality d.
IndexFlatL2(d) == [d |-> d, xb |-> <<>>]

\* index.ntotal
Ntotal(index) == Len(index.xb)

\* Mutant of IndexAddOk: a row of any length is accepted.
IndexAddOkAnyDim(index, vec) == TRUE

\* index.add(vec) for one row: the wrapper asserts the row's length is d.
IndexAddOk(index, vec) == Len(vec) = index.d
IndexAdd(index, vec) == [index EXCEPT !.xb = Append(@, vec)]

RECURSIVE Flatten(_)
Flatten(rows) ==
    IF rows = <<>> THEN <<>> ELSE Head(rows) \o Flatten(Tail(rows))

\* faiss.write_index: the header (d, ntotal) and the rows as one flat array.
WriteIndex(index) ==
    [d |-> index.d, ntotal |-> Ntotal(index), codes |-> Flatten(index.xb)]

\* Mutant of ReadIndex: the rows come back in reverse order.
ReadIndexReversed(blob) ==
    [d |-> blob.d,
     xb |-> [i \in 1..blob.ntotal |->
                SubSeq(blob.codes, (blob.ntotal - i) * blob.d + 1,
                       (blob.ntotal - i + 1) * blob.d)]]

\* faiss.read_index: the flat array cut back into ntotal rows of d values.
ReadIndex(blob) ==
    [d |-> blob.d,
     xb |-> [i \in 1..blob.ntotal |->
                SubSeq(blob.codes, (i - 1) * blob.d + 1, i * blob.d)]]

RECURSIVE SumSq(_, _, _)
SumSq(x, y, i) ==
    IF i = 0 THEN 0 ELSE (x[i] - y[i]) * (x[i] - y[i]) + SumSq(x, y, i - 1)

RECURSIVE SumDiff(_, _, _)
SumDiff(x, y, i) == IF i = 0 THEN 0 ELSE (x[i] - y[i]) + SumDiff(x, y, i - 1)

\* Mutant of L2Sqr: the differences are summed without being squared.
L2SqrUnsquared(x, y) == SumDiff(x, y, Len(x))

\* The flat L2 index's metric: squared Euclidean distance.
L2Sqr(x, y) == SumSq(x, y, Len(x))

\* Distance from q to the row at (0-based) position p.
DistAt(index, q, p) == L2Sqr(q, index.xb[p + 1])

\* index.search(q, k) with 1 <= k <= ntotal: every row of k labels the library
\* may return. The labels are distinct positions, in ascending distance, and no
\* position left out is nearer than one returned; which of several equidistant
\* rows comes first (or is kept) is the library's choice.
FaissSearch(index, q, k) ==
    LET n    == Ntotal(index)
        dist == [p \in 0..(n - 1) |-> DistAt(index, q, p)]
    IN  { I \in [1..k -> 0..(n - 1)] :
            /\ \A a, b \in 1..k : a < b => I[a] # I[b] /\ dist[I[a]] <= dist[I[b]]
            /\ \A p \in 0..(n - 1) :
                  (\A a \in 1..k : I[a] # p) => dist[I[k]] <= dist[p] }

\* index.search asserts that the query row has the index's dimensionality.
FaissSearchOk(index, q) == Len(q) = index.d

VARIABLES
    faissIndexFile,   \* FAISS_INDEX_FILE: NoFile or Some(serialized index)
    vectorMapFile,    \* VECTOR_MAP_FILE: NoFile or Some(JSON object)
    addLog,           \* the adds that returned, in order: id, emb, pos
    lastCall,         \* the last direct call of the vector store and its outcome
    bookmarkRows,     \* Bookmark table: pk -> [text, embedding, tags]
    bookmarkLinks,    \* BookmarkLink rows of each bookmark: pk -> urls, in pk order
    bookmarkFiles,    \* BookmarkFile rows of each bookmark: pk -> files, in pk order
    nextPk,           \* the pk the next Bookmark row gets
    pc,               \* where each worker is in the call it is running
    loc,              \* each worker's arguments and local variables
    categoryRows,     \* Category table: the categories that exist
    bookmarkCategory, \* Bookmark.category of each bookmark: pk -> None or Some(c)
    tagRows,          \* Tag table: the tag names, in id order
    bookmarkTags,     \* Bookmark.tags through table: rows <<bookmark pk, tag id>>
    run,              \* the frame of the process_bookmark invocation under way
    crashes,          \* how often the process died so far
    modelCache        \* generate_embedding._model, auto_tag._clf and the loads made

storeVars == <<faissIndexFile, vectorMapFile>>
dbVars == <<bookmarkRows, bookmarkLinks, bookmarkFiles, nextPk>>
workerVars == <<pc, loc>>
catVars == <<categoryRows, bookmarkCategory>>
runVars == <<tagRows, bookmarkTags, run>>
procVars == <<crashes, modelCache>>
vars == <<faissIndexFile, vectorMapFile, addLog, lastCall, bookmarkRows,
          bookmarkLinks, bookmarkFiles, nextPk, pc, loc, categoryRows,
          bookmarkCategory, tagRows, bookmarkTags, run, crashes, modelCache>>

\* ------------------------------------------------- 4. FAISS helpers (utils.py)
\* Mutant of LoadVecMap: the map file is never read.
LoadVecMapFresh(mapFile) == EmptyDict

\* The two reads of _load_faiss.
LoadVecMap(mapFile) ==
    IF mapFile # NoFile THEN JsonLoad(Get(mapFile)) ELSE EmptyDict
LoadIndex(indexFile) ==
    IF indexFile # NoFile THEN Some(ReadIndex(Get(indexFile))) ELSE None

\* _load_faiss(): (index, vec_map) from the two files.
LoadFaiss(indexFile, mapFile) ==
    [index |-> LoadIndex(indexFile), vec_map |-> LoadVecMap(mapFile)]

\* Mutant of SaveIndexFile: the index is never written.
SaveIndexFileSkipped(indexFile, index) == indexFile

\* The two writes of _save_faiss, in the order it makes them.
SaveIndexFile(indexFile, index) ==
    IF index # None THEN Some(WriteIndex(Get(index))) ELSE indexFile
SaveVecMapFile(vec_map) == Some(JsonDump(vec_map))

\* _save_faiss(index, vec_map) as one step: both files after it returns.
SaveFaiss(indexFile, index, vec_map) ==
    [indexFile |-> SaveIndexFile(indexFile, index),
     mapFile   |-> SaveVecMapFile(vec_map)]

\* Mutant of AddPos: pos is read after index.add.
AddPosAfterAdd(index) == Ntotal(index) + 1

\* pos = index.ntotal, read before index.add (line 125).
AddPos(index) == Ntotal(index)

\* Lines 122-127 of add_embedding_to_index on the loaded pair: the index after
\* index.add, the map after vec_map[str(pos)] = bookmark_id. ok is FALSE when
\* index.add raises (the row's length is not the index's dimensionality).
AddToLoaded(loaded, bookmark_id, emb) ==
    LET vec   == AsFloat32(emb)
        index == IF loaded.index = None THEN IndexFlatL2(Len(vec))
                 ELSE Get(loaded.index)
        pos   == AddPos(index)
    IN  [ok      |-> IndexAddOk(index, vec),
         index   |-> Some(IndexAdd(index, vec)),
         vec_map |-> DictSet(loaded.vec_map, Str(pos), bookmark_id),
         pos     |-> pos]

\* Mutant of SearchEarlyReturn: the test for a missing index is left out.
SearchEarlyReturnNoNone(loaded) ==
    loaded.index # None /\ Ntotal(Get(loaded.index)) = 0

\* if index is None or index.ntotal == 0: return [] (line 134).
SearchEarlyReturn(loaded) ==
    loaded.index = None \/ Ntotal(Get(loaded.index)) = 0

\* Mutant of Translate: no "if str(i) in vec_map", so that a label missing from
\* the map raises KeyError.
TranslateUnfiltered(vec_map, labels) ==
    LET present == SelectSeq(labels, LAMBDA i : Str(i) \in DOMAIN vec_map)
    IN  [ok  |-> Len(present) = Len(labels),
         ids |-> [j \in 1..Len(present) |-> vec_map[Str(present[j])]]]

\* [int(vec_map[str(i)]) for i in idxs[0] if str(i) in vec_map] (line 138).
\* ok is FALSE when the comprehension raises KeyError.
Translate(vec_map, labels) ==
    LET present == SelectSeq(labels, LAMBDA i : Str(i) \in DOMAIN vec_map)
    IN  [ok  |-> TRUE,
         ids |-> [j \in 1..Len(present) |-> vec_map[Str(present[j])]]]

Raised == [ok |-> FALSE, labels |-> <<>>, ids |-> <<>>]

\* search_embeddings(query_vec, k) on the loaded pair: every outcome it may
\* have. ok is FALSE when the call raises.
SearchLoaded(loaded, query_vec, k) ==
    IF SearchEarlyReturn(loaded)
    THEN {[ok |-> TRUE, labels |-> <<>>, ids |-> <<>>]}
    ELSE IF loaded.index = None THEN {Raised}
    ELSE LET index == Get(loaded.index)
             q     == AsFloat32(query_vec)
         IN  IF ~FaissSearchOk(index, q) THEN {Raised}
             ELSE { LET t == Translate(loaded.vec_map, I)
                    IN  [ok |-> t.ok, labels |-> I, ids |-> t.ids] :
                        I \in FaissSearch(index, q, Min(k, Ntotal(index))) }

\* ------------------------------------------------------------------ state
\* The threads or processes that call the vector store concurrently.
Workers == {"w1", "w2"}

\* A worker's frame before a call: no arguments, no locals.
NoLocal ==
    [bookmark_id |-> 0, vec |-> <<>>, k |-> 0, index |-> None,
     vec_map |-> EmptyDict, pos |-> 0, ok |-> TRUE, labels |-> <<>>,
     ids |-> <<>>]

NoCall ==
    [op |-> "none", bookmark_id |-> 0, vec |-> <<>>, k |-> 0, index |-> None,
     vec_map |-> EmptyDict, ok |-> TRUE, labels |-> <<>>, ids |-> <<>>]

\* A new Bookmark row: text = "" (the empty token sequence), embedding None, no
\* tags (models.py).
NewBookmark == [text |-> <<>>, embedding |-> None, tags |-> {}]

\* No process_bookmark invocation is under way: the frame before a call.
\* pc is where the run is; srcs are the bookmark's links and files as the run
\* found them and todo those not yet read; chunks, full_text and labels are
\* the locals of the same names; obj is the Bookmark object's attributes in
\* memory; before is the bookmark's persisted state when the run was called
\* (its row, the Tag table and the through table); out is what auto_tag
\* returned; trace lists the calls the run made so far and how each ended;
\* calls counts the invocations made so far.
NoRun ==
    [pc |-> "idle", calls |-> 0, pk |-> 0, srcs |-> <<>>, todo |-> <<>>, chunks |-> <<>>,
     full_text |-> <<>>, labels |-> <<>>, out |-> <<>>,
     obj |-> [text |-> <<>>, embedding |-> None],
     before |-> [row |-> NewBookmark, tagRows |-> <<>>, bookmarkTags |-> <<>>],
     trace |-> <<>>]

\* A fresh process: neither function has its model attribute, nothing was loaded.
NoModels ==
    [generate_embedding |-> None, auto_tag |-> None,
     loads |-> [generate_embedding |-> 0, auto_tag |-> 0]]

Init ==
    /\ faissIndexFile = NoFile
    /\ vectorMapFile = NoFile
    /\ addLog = <<>>
    /\ lastCall = NoCall
    /\ bookmarkRows = <<>>
    /\ bookmarkLinks = <<>>
    /\ bookmarkFiles = <<>>
    /\ nextPk = 1
    /\ pc = [w \in Workers |-> "idle"]
    /\ loc = [w \in Workers |-> NoLocal]
    /\ categoryRows = {}
    /\ bookmarkCategory = <<>>
    /\ tagRows = <<>>
    /\ bookmarkTags = <<>>
    /\ run = NoRun
    /\ crashes = 0
    /\ modelCache = NoModels

\* What a returned add appends to addLog: its arguments, the position it
\* assigned and the two files as it left them.
Logged(bookmark_id, emb, pos, indexFile, mapFile) ==
    [bookmark_id |-> bookmark_id, emb |-> emb, pos |-> pos,
     indexFile |-> indexFile, mapFile |-> mapFile]

\* --------------------------------------- the vector store, one call at a time
\* add_embedding_to_index(bookmark_id, emb), run to its end. lastCall keeps the
\* in-memory pair handed to _save_faiss.
AddEmbeddingToIndex(bookmark_id, emb) ==
    /\ Len(addLog) < MaxAdds
    /\ LET loaded == LoadFaiss(faissIndexFile, vectorMapFile)
           r      == AddToLoaded(loaded, bookmark_id, emb)
           saved  == SaveFaiss(faissIndexFile, r.index, r.vec_map)
       IN  IF r.ok
           THEN /\ faissIndexFile' = saved.indexFile
                /\ vectorMapFile' = saved.mapFile
                /\ addLog' = Append(addLog, Logged(bookmark_id, emb, r.pos,
                                                   saved.indexFile, saved.mapFile))
                /\ lastCall' = [NoCall EXCEPT !.op = "add",
                                   !.bookmark_id = bookmark_id, !.vec = emb,
                                   !.index = r.index, !.vec_map = r.vec_map]
           ELSE /\ UNCHANGED <<faissIndexFile, vectorMapFile, addLog>>
                /\ lastCall' = [NoCall EXCEPT !.op = "add",
                                   !.bookmark_id = bookmark_id, !.vec = emb,
                                   !.index = loaded.index,
                                   !.vec_map = loaded.vec_map, !.ok = FALSE]
    /\ UNCHANGED <<dbVars, workerVars, catVars, runVars, procVars>>

\* search_embeddings(query_vec, k), run to its end. lastCall keeps the pair it
\* loaded and what it returned.
SearchEmbeddings(query_vec, k) ==
    /\ LET loaded == LoadFaiss(faissIndexFile, vectorMapFile)
       IN  \E o \in SearchLoaded(loaded, query_vec, k) :
               lastCall' = [NoCall EXCEPT !.op = "search", !.vec = query_vec,
                               !.k = k, !.index = loaded.index,
                               !.vec_map = loaded.vec_map, !.ok = o.ok,
                               !.labels = o.labels, !.ids = o.ids]
    /\ UNCHANGED <<faissIndexFile, vectorMapFile, addLog>>
    /\ UNCHANGED <<dbVars, workerVars, catVars, runVars, procVars>>

Next ==
    \/ \E b \in BookmarkIds, e \in Embeddings : AddEmbeddingToIndex(b, e)
    \/ \E q \in Queries, k \in 1..MaxK : SearchEmbeddings(q, k)

Spec == Init /\ [][Next]_vars

\* ------------------------------------------------ 5. process one Bookmark
\* Input domains of the views: the pks a Bookmark row may get, the URL lists of
\* the link form, the uploaded file lists, and what auto_tag may return.
Pks == {1, 2}
Urls == {"u1", "u2"}
LinkLists == {<<>>, <<"u1">>}
FileLists == {<<>>, <<"f1">>}
TagOutcomes == {None, Some({}), Some({"ai"})}

Range(seq) == {seq[i] : i \in 1..Len(seq)}

\* Lines 147-163: the chunks of the sources whose extraction succeeded, links
\* first, then files; a chunk is the token naming its source, a text is the
\* sequence of its chunks ("" is <<>>).
FullText(lnks, fls, okSrc) ==
    SelectSeq(lnks, LAMBDA u : u \in okSrc) \o SelectSeq(fls, LAMBDA f : f \in okSrc)

\* generate_embedding(text): a fixed function of the text into 2-D vectors, the
\* number of URL chunks and the number of file chunks.
GenerateEmbedding(text) ==
    <<Len(SelectSeq(text, LAMBDA t : t \in Urls)),
      Len(SelectSeq(text, LAMBDA t : t \notin Urls))>>

\* Lines 164-172: bookmark.embedding after the embedding stage. With no text
\* the attribute keeps the value the object came with.
EmbeddingStage(bookmark, full_text, embedded) ==
    IF full_text # <<>>
    THEN IF embedded THEN GenerateEmbedding(full_text) ELSE None
    ELSE bookmark.embedding

\* Lines 177-183: the bookmark's tags after the tagging stage; tagged is None
\* when auto_tag raises, else Some(labels).
TaggingStage(bookmark, full_text, tagged) ==
    IF full_text # <<>> /\ tagged # None
    THEN bookmark.tags \cup Get(tagged)
    ELSE bookmark.tags

\* The Bookmark row process_bookmark leaves behind.
ProcessedRow(bookmark, lnks, fls, okSrc, embedded, tagged) ==
    LET full_text == FullText(lnks, fls, okSrc)
    IN  [text      |-> full_text,
         embedding |-> EmbeddingStage(bookmark, full_text, embedded),
         tags      |-> TaggingStage(bookmark, full_text, tagged)]

\* if bookmark.embedding: (line 186), Python truthiness of None or a list.
Truthy(embedding) == embedding # None

\* Lines 186-190: the vector store and addLog after the FAISS stage.
FaissStage(pk, embedding) ==
    LET loaded == LoadFaiss(faissIndexFile, vectorMapFile)
        r      == AddToLoaded(loaded, pk, embedding)
        saved  == SaveFaiss(faissIndexFile, r.index, r.vec_map)
    IN  IF Truthy(embedding) /\ r.ok
        THEN [indexFile |-> saved.indexFile, mapFile |-> saved.mapFile,
              log |-> Append(addLog, Logged(pk, embedding, r.pos,
                                            saved.indexFile, saved.mapFile))]
        ELSE [indexFile |-> faissIndexFile, mapFile |-> vectorMapFile,
              log |-> addLog]

\* process_bookmark(bookmark) run to its end on the object `bookmark` of row pk.
ProcessBookmark(pk, bookmark, rows, lnks, fls, okSrc, embedded, tagged) ==
    LET row == ProcessedRow(bookmark, lnks, fls, okSrc, embedded, tagged)
        st  == FaissStage(pk, row.embedding)
    IN  /\ Truthy(row.embedding) => Len(addLog) < MaxRuns
        /\ bookmarkRows' = [x \in DOMAIN rows |-> IF x = pk THEN row ELSE rows[x]]
        /\ faissIndexFile' = st.indexFile
        /\ vectorMapFile' = st.mapFile
        /\ addLog' = st.log

\* f with key k bound to v; f without key k.
With(f, k, v) == [x \in DOMAIN f \cup {k} |-> IF x = k THEN v ELSE f[x]]
Without(f, k) == [x \in DOMAIN f \ {k} |-> f[x]]

\* ----------------------------------------------------------------- views.py
\* upload_bookmark, POST with valid forms: the row, its files and links are
\* created, then process_bookmark runs.
UploadBookmark(category, lnks, fls, okSrc, embedded, tagged) ==
    /\ nextPk \in Pks
    /\ nextPk' = nextPk + 1
    /\ bookmarkCategory' = With(bookmarkCategory, nextPk, category)
    /\ bookmarkLinks' = With(bookmarkLinks, nextPk, lnks)
    /\ bookmarkFiles' = With(bookmarkFiles, nextPk, fls)
    /\ ProcessBookmark(nextPk, NewBookmark, With(bookmarkRows, nextPk, NewBookmark),
                       lnks, fls, okSrc, embedded, tagged)
    /\ UNCHANGED <<lastCall, workerVars, categoryRows, runVars, procVars>>

\* The files left after bookmark_edit's deletions and additions.
EditedFiles(pk, delete_files, new_files) ==
    SelectSeq(bookmarkFiles[pk], LAMBDA f : f \notin delete_files) \o new_files

\* bookmark_edit, POST with a valid form: files are deleted and added, then
\* process_bookmark runs on the object read from the row.
BookmarkEdit(pk, category, delete_files, new_files, okSrc, embedded, tagged) ==
    /\ pk \in DOMAIN bookmarkRows
    /\ bookmarkCategory' = [bookmarkCategory EXCEPT ![pk] = category]
    /\ Range(new_files) \cap Range(bookmarkFiles[pk]) = {}
    /\ LET fls == EditedFiles(pk, delete_files, new_files)
       IN  /\ bookmarkFiles' = [bookmarkFiles EXCEPT ![pk] = fls]
           /\ ProcessBookmark(pk, bookmarkRows[pk], bookmarkRows,
                              bookmarkLinks[pk], fls, okSrc, embedded, tagged)
    /\ UNCHANGED <<bookmarkLinks, nextPk, lastCall, workerVars, categoryRows,
                   runVars, procVars>>

\* delete_bookmark, POST: the row goes, and its links and files with it.
DeleteBookmark(pk) ==
    /\ pk \in DOMAIN bookmarkRows
    /\ bookmarkRows' = Without(bookmarkRows, pk)
    /\ bookmarkLinks' = Without(bookmarkLinks, pk)
    /\ bookmarkFiles' = Without(bookmarkFiles, pk)
    /\ bookmarkCategory' = Without(bookmarkCategory, pk)
    /\ UNCHANGED <<faissIndexFile, vectorMapFile, addLog, lastCall, nextPk,
                   workerVars, categoryRows, runVars, procVars>>

\* What the sources may do in one run: any of the bookmark's links and files
\* may be readable or not.
Readable(lnks, fls) == SUBSET (Range(lnks) \cup Range(fls))

\* What generate_embedding and auto_tag may do in a run that gathered
\* full_text: each is called only with text, and then returns or raises.
EmbedOutcomes(full_text) == IF full_text # <<>> THEN BOOLEAN ELSE {FALSE}
TagOutcomesFor(full_text) == IF full_text # <<>> THEN TagOutcomes ELSE {None}

\* The values the category field of BookmarkForm accepts: blank, or a
\* category that exists.
CategoryChoices == {None} \cup {Some(c) : c \in categoryRows}

NextApp ==
    \/ \E category \in CategoryChoices, lnks \in LinkLists, fls \in FileLists :
          \E okSrc \in Readable(lnks, fls) :
             \E embedded \in EmbedOutcomes(FullText(lnks, fls, okSrc)),
                tagged \in TagOutcomesFor(FullText(lnks, fls, okSrc)) :
                   UploadBookmark(category, lnks, fls, okSrc, embedded, tagged)
    \/ \E pk \in DOMAIN bookmarkRows, category \in CategoryChoices,
          delete_files \in SUBSET {"f1"}, new_files \in FileLists :
          LET lnks == bookmarkLinks[pk]
              fls  == EditedFiles(pk, delete_files, new_files)
          IN  \E okSrc \in Readable(lnks, fls) :
                 \E embedded \in EmbedOutcomes(FullText(lnks, fls, okSrc)),
                    tagged \in TagOutcomesFor(FullText(lnks, fls, okSrc)) :
                       BookmarkEdit(pk, category, delete_files, new_files,
                                    okSrc, embedded, tagged)
    \/ \E pk \in DOMAIN bookmarkRows : DeleteBookmark(pk)

\* The views, one request at a time.
SpecApp == Init /\ [][NextApp]_vars

\* ------------------------------- the views with categories, one at a time
\* Input domain: the names given to add_category.
Categories == {"c1"}

\* add_category, POST with a valid form (the name is unique).
AddCategory(c) ==
    /\ c \notin categoryRows
    /\ categoryRows' = categoryRows \cup {c}
    /\ UNCHANGED <<storeVars, addLog, lastCall, dbVars, workerVars,
                   bookmarkCategory, runVars, procVars>>

\* The bookmarks of a category: category.bookmark_set.
BookmarkSet(c) == {pk \in DOMAIN bookmarkRows : bookmarkCategory[pk] = Some(c)}

\* f without the keys in ks.
WithoutAll(f, ks) == [x \in DOMAIN f \ ks |-> f[x]]

\* delete_category, POST: the category's bookmarks are deleted (their links and
\* files with them), then the category.
DeleteCategory(c) ==
    /\ c \in categoryRows
    /\ categoryRows' = categoryRows \ {c}
    /\ bookmarkRows' = WithoutAll(bookmarkRows, BookmarkSet(c))
    /\ bookmarkLinks' = WithoutAll(bookmarkLinks, BookmarkSet(c))
    /\ bookmarkFiles' = WithoutAll(bookmarkFiles, BookmarkSet(c))
    /\ bookmarkCategory' = WithoutAll(bookmarkCategory, BookmarkSet(c))
    /\ UNCHANGED <<storeVars, addLog, lastCall, nextPk, workerVars, runVars,
                   procVars>>

\* The requests of this specification carry links only, and auto_tag raises in
\* each run, so that the state is the store, the rows and the categories.
NextCrud ==
    \/ \E c \in Categories : AddCategory(c)
    \/ \E category \in CategoryChoices, lnks \in LinkLists :
          \E okSrc \in Readable(lnks, <<>>) :
             \E embedded \in EmbedOutcomes(FullText(lnks, <<>>, okSrc)) :
                UploadBookmark(category, lnks, <<>>, okSrc, embedded, None)
    \/ \E pk \in DOMAIN bookmarkRows, category \in CategoryChoices :
          \E okSrc \in Readable(bookmarkLinks[pk], <<>>) :
             \E embedded \in EmbedOutcomes(FullText(bookmarkLinks[pk], <<>>, okSrc)) :
                BookmarkEdit(pk, category, {}, <<>>, okSrc, embedded, None)
    \/ \E pk \in DOMAIN bookmarkRows : DeleteBookmark(pk)
    \/ \E c \in categoryRows : DeleteCategory(c)

\* The views, categories included, one request at a time.
SpecCrud == Init /\ [][NextCrud]_vars

\* ------------------------------- process_bookmark, stage by stage, with crashes
\* Largest number of process_bookmark invocations in one behaviour.
MaxCalls == 2
\* Largest number of times the process dies in one behaviour.
MaxCrashes == 1

\* Input domains of the stage-by-stage runs: the links and files a bookmark is
\* uploaded with (none, two URLs, one file) and the label lists auto_tag may
\* return.
RunSources ==
    {[links |-> <<>>, files |-> <<>>],
     [links |-> <<"u1", "u2">>, files |-> <<>>],
     [links |-> <<>>, files |-> <<"f1">>]}
LabelLists == {<<"ai">>, <<"ai", "python">>}
\* The pks of the bookmarks uploaded in the stage-by-stage runs.
RunPks == {1}

\* What reading one source may do: raise, return blank text, return text.
ExtractOutcomes == {"raise", "blank", "text"}

\* "\n".join(chunks).strip() (line 163): the tokens of the chunks in order; a
\* blank chunk has none, so blank chunks alone give "".
RECURSIVE JoinStrip(_)
JoinStrip(chunks) ==
    IF chunks = <<>> THEN <<>> ELSE Head(chunks) \o JoinStrip(Tail(chunks))

\* Mutant of Caught: only the source reads are inside a try.
CaughtExtractionOnly(stage) == stage = "extract"

\* Whether the call of a stage is inside a try ... except Exception: the source
\* reads (151-154, 158-161), generate_embedding (168-172), auto_tag and the tag
\* rows (178-183), add_embedding_to_index (187-190); bookmark.save() (174) is not.
Caught(stage) == stage \in {"extract", "embed", "tag", "add"}

\* Where the run goes when the call of a stage raises: on to `next` if the
\* exception is caught, out of process_bookmark if not.
AfterRaise(stage, next) == IF Caught(stage) THEN next ELSE "failed"

\* Tag.objects.get_or_create(name=lbl) (line 180): the Tag table and the id of
\* the row with that name, created if there was none.
GetOrCreate(tags, lbl) ==
    IF \E i \in 1..Len(tags) : tags[i] = lbl
    THEN [rows |-> tags, id |-> CHOOSE i \in 1..Len(tags) : tags[i] = lbl]
    ELSE [rows |-> Append(tags, lbl), id |-> Len(tags) + 1]

\* Mutant of TagsAdd: the row is inserted whether or not it exists.
TagsAddAlways(through, pk, tag_id) == Append(through, <<pk, tag_id>>)

\* bookmark.tags.add(tag) (line 181): the through table; a row is inserted
\* only if the bookmark does not have the tag yet.
TagsAdd(through, pk, tag_id) ==
    IF \E i \in 1..Len(through) : through[i] = <<pk, tag_id>>
    THEN through
    ELSE Append(through, <<pk, tag_id>>)

\* The through rows of a bookmark, and the names of its tags.
TagRowsOf(through, pk) == SelectSeq(through, LAMBDA r : r[1] = pk)
TagNamesOf(tags, through, pk) ==
    {tags[TagRowsOf(through, pk)[i][2]] : i \in 1..Len(TagRowsOf(through, pk))}

\* The run's trace with one more call: the stage called and how it ended.
Called(stage, ended) == run.trace \o <<<<stage, ended>>>>

\* The frame of a run just called on the object `bookmark` of row pk.
CalledRun(pk, bookmark, lnks, fls) ==
    [NoRun EXCEPT !.pc = "extract", !.calls = run.calls + 1, !.pk = pk,
                  !.srcs = lnks \o fls, !.todo = lnks \o fls,
                  !.obj = [text |-> bookmark.text, embedding |-> bookmark.embedding],
                  !.before = [row |-> bookmark, tagRows |-> tagRows,
                              bookmarkTags |-> bookmarkTags]]

\* upload_bookmark up to its call of process_bookmark (lines 39-54).
RunUpload(lnks, fls) ==
    /\ run.pc = "idle"
    /\ nextPk \in RunPks
    /\ run.calls < MaxCalls
    /\ nextPk' = nextPk + 1
    /\ bookmarkRows' = With(bookmarkRows, nextPk, NewBookmark)
    /\ bookmarkLinks' = With(bookmarkLinks, nextPk, lnks)
    /\ bookmarkFiles' = With(bookmarkFiles, nextPk, fls)
    /\ bookmarkCategory' = With(bookmarkCategory, nextPk, None)
    /\ run' = CalledRun(nextPk, NewBookmark, lnks, fls)
    /\ UNCHANGED <<storeVars, addLog, lastCall, workerVars, categoryRows,
                   tagRows, bookmarkTags, procVars>>

\* bookmark_edit up to its call of process_bookmark (lines 130-145).
RunEdit(pk, delete_files, new_files) ==
    /\ run.pc = "idle"
    /\ pk \in DOMAIN bookmarkRows
    /\ run.calls < MaxCalls
    /\ Range(new_files) \cap Range(bookmarkFiles[pk]) = {}
    /\ LET fls == EditedFiles(pk, delete_files, new_files)
       IN  /\ bookmarkFiles' = [bookmarkFiles EXCEPT ![pk] = fls]
           /\ run' = CalledRun(pk, bookmarkRows[pk], bookmarkLinks[pk], fls)
    /\ UNCHANGED <<storeVars, addLog, lastCall, workerVars, catVars, tagRows,
                   bookmarkTags, procVars, bookmarkRows, bookmarkLinks, nextPk>>

\* What every step inside process_bookmark leaves alone unless it says so.
RunFrame ==
    UNCHANGED <<lastCall, workerVars, catVars, procVars, bookmarkLinks,
                bookmarkFiles, nextPk>>

\* Lines 150-161, one turn of a loop: the next source is read.
ExtractSource(outcome) ==
    /\ run.pc = "extract" /\ run.todo # <<>>
    /\ LET src == Head(run.todo)
       IN  run' = [run EXCEPT
              !.todo = Tail(run.todo),
              !.chunks = IF outcome = "raise" THEN @
                         ELSE Append(@, IF outcome = "text" THEN <<src>> ELSE <<>>),
              !.trace = Called("extract", outcome),
              !.pc = IF outcome = "raise" THEN AfterRaise("extract", "extract")
                     ELSE "extract"]
    /\ RunFrame
    /\ UNCHANGED <<storeVars, addLog, bookmarkRows, tagRows, bookmarkTags>>

\* Lines 163-167: full_text is joined and put on the object.
SetText ==
    /\ run.pc = "extract" /\ run.todo = <<>>
    /\ LET full_text == JoinStrip(run.chunks)
       IN  run' = [run EXCEPT !.full_text = full_text, !.obj.text = full_text,
                              !.pc = IF full_text # <<>> THEN "embed" ELSE "save"]
    /\ RunFrame
    /\ UNCHANGED <<storeVars, addLog, bookmarkRows, tagRows, bookmarkTags>>

\* Lines 168-172: generate_embedding returns or raises.
Embed(embedded) ==
    /\ run.pc = "embed"
    /\ run' = [run EXCEPT
          !.obj.embedding = IF embedded THEN GenerateEmbedding(run.full_text)
                            ELSE IF Caught("embed") THEN None ELSE @,
          !.trace = Called("embed", IF embedded THEN "ok" ELSE "raise"),
          !.pc = IF embedded THEN "save" ELSE AfterRaise("embed", "save")]
    /\ RunFrame
    /\ UNCHANGED <<storeVars, addLog, bookmarkRows, tagRows, bookmarkTags>>

\* Line 174: bookmark.save() writes the object's columns to its row, or raises.
Save(saved) ==
    /\ run.pc = "save"
    /\ LET next == IF run.full_text # <<>> THEN "auto_tag" ELSE "faiss"
       IN  run' = [run EXCEPT
              !.trace = Called("save", IF saved THEN "ok" ELSE "raise"),
              !.pc = IF saved THEN next ELSE AfterRaise("save", next)]
    /\ bookmarkRows' =
          IF saved
          THEN [bookmarkRows EXCEPT ![run.pk].text = run.obj.text,
                                    ![run.pk].embedding = run.obj.embedding]
          ELSE bookmarkRows
    /\ RunFrame
    /\ UNCHANGED <<storeVars, addLog, tagRows, bookmarkTags>>

\* Lines 177-179: auto_tag returns its labels or raises; tagged is None when it
\* raises, else Some(labels).
AutoTag(tagged) ==
    /\ run.pc = "auto_tag"
    /\ run' = [run EXCEPT
          !.trace = Called("auto_tag", IF tagged = None THEN "raise" ELSE "ok"),
          !.out = IF tagged = None THEN @ ELSE Get(tagged),
          !.labels = IF tagged = None THEN @ ELSE Get(tagged),
          !.pc = IF tagged = None THEN AfterRaise("tag", "faiss")
                 ELSE IF Get(tagged) = <<>> THEN "faiss" ELSE "tags_add"]
    /\ RunFrame
    /\ UNCHANGED <<storeVars, addLog, bookmarkRows, tagRows, bookmarkTags>>

\* Lines 179-181, one turn of the loop: the Tag row of the next label is
\* fetched or created and the bookmark gets the tag; or the database raises.
TagsAddNext(inserted) ==
    /\ run.pc = "tags_add"
    /\ LET lbl     == Head(run.labels)
           got     == GetOrCreate(tagRows, lbl)
           through == TagsAdd(bookmarkTags, run.pk, got.id)
       IN  IF inserted
           THEN /\ tagRows' = got.rows
                /\ bookmarkTags' = through
                /\ bookmarkRows' = [bookmarkRows EXCEPT ![run.pk].tags =
                                       TagNamesOf(got.rows, through, run.pk)]
                /\ run' = [run EXCEPT
                      !.labels = Tail(run.labels),
                      !.trace = Called("tag_insert", "ok"),
                      !.pc = IF Tail(run.labels) = <<>> THEN "faiss" ELSE "tags_add"]
           ELSE /\ UNCHANGED <<tagRows, bookmarkTags, bookmarkRows>>
                /\ run' = [run EXCEPT !.trace = Called("tag_insert", "raise"),
                                      !.pc = AfterRaise("tag", "faiss")]
    /\ RunFrame
    /\ UNCHANGED <<storeVars, addLog>>

\* Lines 186-190: if the object has an embedding, add_embedding_to_index is
\* called with it; written is FALSE when a file write of the add raises before
\* it changed a file.
Faiss(written) ==
    /\ run.pc = "faiss"
    /\ LET st == FaissStage(run.pk, run.obj.embedding)
           ok == written /\ st.log # addLog
       IN  IF Truthy(run.obj.embedding)
           THEN /\ faissIndexFile' = IF ok THEN st.indexFile ELSE faissIndexFile
                /\ vectorMapFile' = IF ok THEN st.mapFile ELSE vectorMapFile
                /\ addLog' = IF ok THEN st.log ELSE addLog
                /\ run' = [run EXCEPT
                      !.trace = Called("add", IF ok THEN "ok" ELSE "raise"),
                      !.pc = IF ok THEN "done" ELSE AfterRaise("add", "done")]
           ELSE /\ UNCHANGED <<storeVars, addLog>>
                /\ run' = [run EXCEPT !.pc = "done"]
    /\ RunFrame
    /\ UNCHANGED <<bookmarkRows, tagRows, bookmarkTags>>

\* process_bookmark returns to the view, which answers the request.
Return ==
    /\ run.pc = "done"
    /\ run' = [NoRun EXCEPT !.calls = run.calls]
    /\ RunFrame
    /\ UNCHANGED <<storeVars, addLog, bookmarkRows, tagRows, bookmarkTags>>

\* The process dies between two steps of a run: the frame is lost, the database
\* and the files stay.
Crash ==
    /\ run.pc \in {"extract", "embed", "save", "auto_tag", "tags_add", "faiss"}
    /\ crashes < MaxCrashes
    /\ crashes' = crashes + 1
    /\ run' = [run EXCEPT !.pc = "crashed"]
    /\ UNCHANGED <<storeVars, addLog, lastCall, dbVars, workerVars, catVars,
                   tagRows, bookmarkTags, modelCache>>

\* After a crash or an exception that left process_bookmark, the server takes
\* the next request.
Recover ==
    /\ run.pc \in {"crashed", "failed"}
    /\ run' = [NoRun EXCEPT !.calls = run.calls]
    /\ RunFrame
    /\ UNCHANGED <<storeVars, addLog, bookmarkRows, tagRows, bookmarkTags>>

NextRun ==
    \/ \E s \in RunSources : RunUpload(s.links, s.files)
    \/ \E pk \in DOMAIN bookmarkRows, delete_files \in SUBSET {"f1"},
          new_files \in FileLists : RunEdit(pk, delete_files, new_files)
    \/ \E outcome \in ExtractOutcomes : ExtractSource(outcome)
    \/ SetText
    \/ \E embedded \in BOOLEAN : Embed(embedded)
    \/ \E saved \in BOOLEAN : Save(saved)
    \/ \E tagged \in {None} \cup {Some(l) : l \in LabelLists} : AutoTag(tagged)
    \/ \E inserted \in BOOLEAN : TagsAddNext(inserted)
    \/ \E written \in BOOLEAN : Faiss(written)
    \/ Return
    \/ Crash
    \/ Recover

\* One request at a time, process_bookmark taken stage by stage.
SpecRun == Init /\ [][NextRun]_vars

\* ------------------------------- the vector store, calls running concurrently
\* Input domains of the concurrent callers: the bookmark each worker adds, its
\* embedding, and the queries.
ConcBookmark(w) == IF w = "w1" THEN 1 ELSE 2
ConcEmbedding(w) == IF w = "w1" THEN <<1, 0>> ELSE <<0, 1>>
ConcQueries == {<<0, 0>>}

\* The adds that have started: those returned and those still running.
AddsStarted ==
    Len(addLog) + Cardinality({w \in Workers : pc[w] \in
        {"add_load_map", "add_load_index", "add_write_index", "add_write_map"}})

\* A worker calls add_embedding_to_index(bookmark_id, emb).
StartAdd(w, bookmark_id, emb) ==
    /\ pc[w] = "idle"
    /\ AddsStarted < MaxConcAdds
    /\ pc' = [pc EXCEPT ![w] = "add_load_map"]
    /\ loc' = [loc EXCEPT ![w] = [NoLocal EXCEPT !.bookmark_id = bookmark_id,
                                                 !.vec = emb]]
    /\ UNCHANGED <<storeVars, addLog, lastCall, dbVars>>
    /\ UNCHANGED <<catVars, runVars, procVars>>

\* Whether json.load(fp) in _load_faiss returns: there is no file to read, or
\* the file holds a document.
MapFileLoads(mapFile) == mapFile = NoFile \/ JsonLoadOk(Get(mapFile))

\* _load_faiss, lines 101-104: the map file is read. If json.load raises, the
\* call ends.
AddLoadMap(w) ==
    /\ pc[w] = "add_load_map"
    /\ IF MapFileLoads(vectorMapFile)
       THEN /\ loc' = [loc EXCEPT ![w].vec_map = LoadVecMap(vectorMapFile)]
            /\ pc' = [pc EXCEPT ![w] = "add_load_index"]
       ELSE /\ loc' = [loc EXCEPT ![w] = NoLocal]
            /\ pc' = [pc EXCEPT ![w] = "idle"]
    /\ UNCHANGED <<storeVars, addLog, lastCall, dbVars>>
    /\ UNCHANGED <<catVars, runVars, procVars>>

\* _load_faiss, line 105: the index file is read; then lines 122-127, which
\* touch only the worker's own objects. If index.add raises, the call ends.
AddLoadIndex(w) ==
    /\ pc[w] = "add_load_index"
    /\ LET loaded == [index |-> LoadIndex(faissIndexFile),
                      vec_map |-> loc[w].vec_map]
           r == AddToLoaded(loaded, loc[w].bookmark_id, loc[w].vec)
       IN  IF r.ok
           THEN /\ loc' = [loc EXCEPT ![w].index = r.index,
                                      ![w].vec_map = r.vec_map,
                                      ![w].pos = r.pos]
                /\ pc' = [pc EXCEPT ![w] = "add_write_index"]
           ELSE /\ loc' = [loc EXCEPT ![w] = NoLocal]
                /\ pc' = [pc EXCEPT ![w] = "idle"]
    /\ UNCHANGED <<storeVars, addLog, lastCall, dbVars>>
    /\ UNCHANGED <<catVars, runVars, procVars>>

\* Mutant of AddWriteIndex: the map file is written where the index file
\* should be.
AddWriteIndexMapFirst(w) ==
    /\ pc[w] = "add_write_index"
    /\ vectorMapFile' = SaveVecMapFile(loc[w].vec_map)
    /\ pc' = [pc EXCEPT ![w] = "add_write_map"]
    /\ UNCHANGED <<faissIndexFile, addLog, lastCall, dbVars, loc>>
    /\ UNCHANGED <<catVars, runVars, procVars>>

\* _save_faiss, lines 113-114: the index file is written.
AddWriteIndex(w) ==
    /\ pc[w] = "add_write_index"
    /\ faissIndexFile' = SaveIndexFile(faissIndexFile, loc[w].index)
    /\ pc' = [pc EXCEPT ![w] = "add_write_map"]
    /\ UNCHANGED <<vectorMapFile, addLog, lastCall, dbVars, loc>>
    /\ UNCHANGED <<catVars, runVars, procVars>>

\* _save_faiss, lines 115-116: the map file is written, and the add returns.
AddWriteMap(w) ==
    /\ pc[w] = "add_write_map"
    /\ vectorMapFile' = SaveVecMapFile(loc[w].vec_map)
    /\ addLog' = Append(addLog, Logged(loc[w].bookmark_id, loc[w].vec, loc[w].pos,
                                       faissIndexFile, vectorMapFile'))
    /\ pc' = [pc EXCEPT ![w] = "idle"]
    /\ loc' = [loc EXCEPT ![w] = NoLocal]
    /\ UNCHANGED <<faissIndexFile, lastCall, dbVars>>
    /\ UNCHANGED <<catVars, runVars, procVars>>

\* A worker calls search_embeddings(query_vec, k).
StartSearch(w, query_vec, k) ==
    /\ pc[w] = "idle"
    /\ pc' = [pc EXCEPT ![w] = "search_load_map"]
    /\ loc' = [loc EXCEPT ![w] = [NoLocal EXCEPT !.vec = query_vec, !.k = k]]
    /\ UNCHANGED <<storeVars, addLog, lastCall, dbVars>>
    /\ UNCHANGED <<catVars, runVars, procVars>>

\* _load_faiss, lines 101-104: the map file is read. If json.load raises, so
\* does the search.
SearchLoadMap(w) ==
    /\ pc[w] = "search_load_map"
    /\ IF MapFileLoads(vectorMapFile)
       THEN /\ loc' = [loc EXCEPT ![w].vec_map = LoadVecMap(vectorMapFile)]
            /\ pc' = [pc EXCEPT ![w] = "search_load_index"]
       ELSE /\ loc' = [loc EXCEPT ![w].ok = FALSE]
            /\ pc' = [pc EXCEPT ![w] = "search_return"]
    /\ UNCHANGED <<storeVars, addLog, lastCall, dbVars>>
    /\ UNCHANGED <<catVars, runVars, procVars>>

\* _load_faiss, line 105: the index file is read; then lines 134-138 on the
\* loaded pair. The worker holds the pair it loaded and the outcome.
SearchLoadIndex(w) ==
    /\ pc[w] = "search_load_index"
    /\ LET loaded == [index |-> LoadIndex(faissIndexFile),
                      vec_map |-> loc[w].vec_map]
       IN  \E o \in SearchLoaded(loaded, loc[w].vec, loc[w].k) :
               loc' = [loc EXCEPT ![w].index = loaded.index, ![w].ok = o.ok,
                                  ![w].labels = o.labels, ![w].ids = o.ids]
    /\ pc' = [pc EXCEPT ![w] = "search_return"]
    /\ UNCHANGED <<storeVars, addLog, lastCall, dbVars>>
    /\ UNCHANGED <<catVars, runVars, procVars>>

\* The search returns to its caller (or raises).
SearchReturn(w) ==
    /\ pc[w] = "search_return"
    /\ pc' = [pc EXCEPT ![w] = "idle"]
    /\ loc' = [loc EXCEPT ![w] = NoLocal]
    /\ UNCHANGED <<storeVars, addLog, lastCall, dbVars>>
    /\ UNCHANGED <<catVars, runVars, procVars>>

NextConc ==
    \/ \E w \in Workers : StartAdd(w, ConcBookmark(w), ConcEmbedding(w))
    \/ \E w \in Workers : AddLoadMap(w)
    \/ \E w \in Workers : AddLoadIndex(w)
    \/ \E w \in Workers : AddWriteIndex(w)
    \/ \E w \in Workers : AddWriteMap(w)
    \/ \E w \in Workers, q \in ConcQueries, k \in 1..MaxK : StartSearch(w, q, k)
    \/ \E w \in Workers : SearchLoadMap(w)
    \/ \E w \in Workers : SearchLoadIndex(w)
    \/ \E w \in Workers : SearchReturn(w)

\* Two workers calling the vector store, their file reads and writes interleaved.
SpecConc == Init /\ [][NextConc]_vars

\* --------------------- the vector store, one call at a time, with crashes
\* The worker that serves the calls when they run one at a time.
Server == "w1"

\* The process dies inside a call of the vector store, between two of its file
\* reads and writes: the worker's frame is lost, the files stay as they are.
CrashInCall(w) ==
    /\ pc[w] # "idle"
    /\ crashes < MaxCrashes
    /\ crashes' = crashes + 1
    /\ pc' = [pc EXCEPT ![w] = "idle"]
    /\ loc' = [loc EXCEPT ![w] = NoLocal]
    /\ UNCHANGED <<storeVars, addLog, lastCall, dbVars, catVars, runVars,
                   modelCache>>

\* The process dies inside the write of the map file, between open(..., "w")
\* of line 115, which empties the file, and json.dump of line 116.
CrashInMapWrite(w) ==
    /\ pc[w] = "add_write_map"
    /\ crashes < MaxCrashes
    /\ crashes' = crashes + 1
    /\ vectorMapFile' = Some(Truncated)
    /\ pc' = [pc EXCEPT ![w] = "idle"]
    /\ loc' = [loc EXCEPT ![w] = NoLocal]
    /\ UNCHANGED <<faissIndexFile, addLog, lastCall, dbVars, catVars, runVars,
                   modelCache>>

NextCrash ==
    \/ \E b \in BookmarkIds : StartAdd(Server, b, ConcEmbedding(Server))
    \/ AddLoadMap(Server)
    \/ AddLoadIndex(Server)
    \/ AddWriteIndex(Server)
    \/ AddWriteMap(Server)
    \/ \E q \in ConcQueries, k \in 1..MaxK : StartSearch(Server, q, k)
    \/ SearchLoadMap(Server)
    \/ SearchLoadIndex(Server)
    \/ SearchReturn(Server)
    \/ CrashInCall(Server)
    \/ CrashInMapWrite(Server)

\* One worker calling the vector store; the process may die inside a call.
SpecCrash == Init /\ [][NextCrash]_vars

\* --------------------------- the lazily loaded models, callers running together
\* The functions that keep a model in an attribute of their own.
ModelFns == {"generate_embedding", "auto_tag"}

\* Where a worker is in a call of such a function: at the hasattr test, at the
\* load and assignment, at the use of the attribute.
PcOf(fn, step) ==
    IF fn = "generate_embedding"
    THEN CASE step = "check" -> "embed_check"
           [] step = "load"  -> "embed_load"
           [] OTHER          -> "embed_use"
    ELSE CASE step = "check" -> "tag_check"
           [] step = "load"  -> "tag_load"
           [] OTHER          -> "tag_use"

\* What the steps of these calls leave alone.
ModelFrame ==
    UNCHANGED <<storeVars, addLog, lastCall, dbVars, catVars, runVars, loc,
                crashes>>

\* A worker calls generate_embedding(text) or auto_tag(text).
CallModelFn(w, fn) ==
    /\ pc[w] = "idle"
    /\ pc' = [pc EXCEPT ![w] = PcOf(fn, "check")]
    /\ UNCHANGED modelCache
    /\ ModelFrame

\* if not hasattr(fn, attr): (lines 71, 89), with no lock held.
CheckModel(w, fn) ==
    /\ pc[w] = PcOf(fn, "check")
    /\ pc' = [pc EXCEPT ![w] =
                 IF modelCache[fn] = None THEN PcOf(fn, "load") ELSE PcOf(fn, "use")]
    /\ UNCHANGED modelCache
    /\ ModelFrame

\* Lines 72, 90-91: a model is loaded and assigned to the attribute; each load
\* makes a new instance, named by its number.
LoadModel(w, fn) ==
    /\ pc[w] = PcOf(fn, "load")
    /\ LET n == modelCache.loads[fn] + 1
       IN  modelCache' = [modelCache EXCEPT ![fn] = Some(n), !.loads[fn] = n]
    /\ pc' = [pc EXCEPT ![w] = PcOf(fn, "use")]
    /\ ModelFrame

\* Lines 73, 92-93: the attribute's model is used and the call returns.
UseModel(w, fn) ==
    /\ pc[w] = PcOf(fn, "use")
    /\ modelCache[fn] # None
    /\ pc' = [pc EXCEPT ![w] = "idle"]
    /\ UNCHANGED modelCache
    /\ ModelFrame

NextLazy ==
    \/ \E w \in Workers, fn \in ModelFns : CallModelFn(w, fn)
    \/ \E w \in Workers, fn \in ModelFns : CheckModel(w, fn)
    \/ \E w \in Workers, fn \in ModelFns : LoadModel(w, fn)
    \/ \E w \in Workers, fn \in ModelFns : UseModel(w, fn)

\* Two threads of one process calling generate_embedding and auto_tag.
SpecLazy == Init /\ [][NextLazy]_vars

\* ------------------------------------------------------- what is persisted
\* The vector count of the persisted index (0 with no index file).
PersistedNtotal ==
    IF faissIndexFile = NoFile THEN 0 ELSE Get(faissIndexFile).ntotal

\* The members and the keys of the persisted mapping (none with no map file).
PersistedMembers ==
    IF vectorMapFile # NoFile /\ JsonLoadOk(Get(vectorMapFile))
    THEN Get(vectorMapFile) ELSE {}
PersistedKeys == {m[1] : m \in PersistedMembers}

\* The pair a call would load now.
Persisted == LoadFaiss(faissIndexFile, vectorMapFile)

\* The in-memory pair the last add handed to _save_faiss.
InMemory == [index |-> lastCall.index, vec_map |-> lastCall.vec_map]

\* The adds of addLog whose vector is at distance 0 from q.
LoggedAt(q) == {i \in 1..Len(addLog) : AsFloat32(addLog[i].emb) = AsFloat32(q)}

\* The query of the last search has the dimensionality of the stored vectors.
WellFormedQuery ==
    /\ lastCall.op = "search"
    /\ addLog # <<>>
    /\ Len(lastCall.vec) = Len(addLog[1].emb)

\* Squared Euclidean distance from the last search's query to the i-th add.
LogDist(i) ==
    LET x == AsFloat32(lastCall.vec)
        y == AsFloat32(addLog[i].emb)
    IN  SumSq(x, y, Len(x))

\* ------------------------------------------------------------------ claims

\* C1: after any sequence of successful add_embedding_to_index calls run one at
\* a time from no files, the persisted mapping has exactly ntotal entries and
\* its key set is exactly the positions 0..ntotal-1 (as str), ntotal being the
\* vector count of the persisted index.
C1_MappingMatchesIndex ==
    addLog # <<>> =>
        /\ faissIndexFile # NoFile /\ vectorMapFile # NoFile
        /\ PersistedNtotal = Len(addLog)
        /\ Cardinality(PersistedMembers) = PersistedNtotal
        /\ PersistedKeys = {Str(p) : p \in 0..(PersistedNtotal - 1)}

\* C1 witness: three adds have returned, the last one just now.
C1_Witness ==
    /\ Len(addLog) = 3 /\ lastCall.op = "add" /\ lastCall.ok
    /\ PersistedNtotal = 3 /\ Cardinality(PersistedKeys) = 3

\* C2: starting from a fresh index, the n-th add that returns records its
\* bookmark id at position n-1, whatever process_bookmark runs failed before
\* reaching add (no text, embedding failure) in between.
C2_NthAddAtPositionNMinus1 ==
    \A n \in 1..Len(addLog) :
        /\ addLog[n].pos = n - 1
        /\ <<Str(n - 1), addLog[n].bookmark_id>> \in PersistedMembers

\* C2 witness: two adds of bookmark 2 have returned, while every run on
\* bookmark 1, created before it, gathered text and failed to embed it.
C2_Witness ==
    /\ Len(addLog) = 2
    /\ addLog[1].bookmark_id = 2 /\ addLog[2].bookmark_id = 2
    /\ addLog[2].pos = 1
    /\ 1 \in DOMAIN bookmarkRows
    /\ bookmarkRows[1].text # <<>> /\ bookmarkRows[1].embedding = None

\* C3 (as claimed): each bookmark id appears in the persisted mapping at no
\* more than one position, for any sequence of upload_bookmark and
\* bookmark_edit requests.
C3_OneRecordPerBookmark ==
    \A pk \in Pks : Cardinality({m \in PersistedMembers : m[2] = pk}) <= 1

\* No add_embedding_to_index call is running.
NoAddRunning ==
    \A w \in Workers : pc[w] \notin
        {"add_load_map", "add_load_index", "add_write_index", "add_write_map"}

\* C4 (as claimed): once concurrent adds have returned, the persisted index
\* holds the vector of each at the position it was assigned, no two were
\* assigned the same position, and the mapping holds the id of each.
C4_AddsSerialized ==
    NoAddRunning =>
        /\ \A i, j \in 1..Len(addLog) : i # j => addLog[i].pos # addLog[j].pos
        /\ \A i \in 1..Len(addLog) :
              /\ addLog[i].pos < PersistedNtotal
              /\ Get(Persisted.index).xb[addLog[i].pos + 1] = AsFloat32(addLog[i].emb)
              /\ <<Str(addLog[i].pos), addLog[i].bookmark_id>> \in PersistedMembers

\* The pairs of files left by an add that returned, and the pair before any.
Committed ==
    {<<NoFile, NoFile>>} \cup
    {<<addLog[i].indexFile, addLog[i].mapFile>> : i \in 1..Len(addLog)}

\* C5 (as claimed): the pair a search loaded is the pair from before an add or
\* the pair from after it, never an index from one and a mapping from another.
C5_SearchLoadsCommittedPair ==
    \A w \in Workers : pc[w] = "search_return" =>
        \E c \in Committed :
            /\ loc[w].index = LoadIndex(c[1])
            /\ loc[w].vec_map = LoadVecMap(c[2])

\* The vector count of the index a searching worker loaded.
LoadedNtotal(w) == IF loc[w].index = None THEN 0 ELSE Ntotal(Get(loc[w].index))

\* C6: for every pair a search may load (also one whose mapping lacks entries
\* for index positions), every query of the index's dimensionality and every
\* k >= 1, search_embeddings does not raise, returns at most min(k, ntotal) ids,
\* and returns exactly the ids the mapping records for the returned positions
\* it has, in their order, skipping the positions it lacks.
C6_SearchBoundedAndSkipsAbsent ==
    \A w \in Workers :
        (/\ pc[w] = "search_return"
         /\ loc[w].index # None => Len(loc[w].vec) = Get(loc[w].index).d) =>
            LET labels == loc[w].labels
                known  == SelectSeq(labels,
                              LAMBDA p : \E m \in JsonDump(loc[w].vec_map) : m[1] = Str(p))
            IN  /\ loc[w].ok
                /\ Len(labels) <= Min(loc[w].k, LoadedNtotal(w))
                /\ Len(loc[w].ids) <= Min(loc[w].k, LoadedNtotal(w))
                /\ Len(loc[w].ids) = Len(known)
                /\ \A j \in 1..Len(known) :
                       <<Str(known[j]), loc[w].ids[j]>> \in JsonDump(loc[w].vec_map)

\* C6 witness: a search with k = 2 loaded two vectors and a mapping without
\* position 0, and returned the one id the mapping has.
C6_Witness ==
    \E w \in Workers :
        /\ pc[w] = "search_return" /\ loc[w].ok /\ loc[w].k = 2
        /\ LoadedNtotal(w) = 2
        /\ DOMAIN loc[w].vec_map = {Str(1)}
        /\ Len(loc[w].labels) = 2 /\ Len(loc[w].ids) = 1

\* C7: after any sequence of adds on a fresh index, a search whose query equals
\* an added vector returns, first, the id of that add or of another add whose
\* vector is at the same (zero) distance.
C7_SelfIsNearest ==
    (lastCall.op = "search" /\ LoggedAt(lastCall.vec) # {}) =>
        /\ lastCall.ok
        /\ Len(lastCall.ids) >= 1
        /\ \E j \in LoggedAt(lastCall.vec) :
               lastCall.ids[1] = addLog[j].bookmark_id

\* C7 witness: the query equals a vector added after a different vector, and two
\* ids are stored with the queried vector.
C7_Witness ==
    /\ lastCall.op = "search" /\ lastCall.ok
    /\ \E i, j \in LoggedAt(lastCall.vec) :
           /\ addLog[i].bookmark_id # addLog[j].bookmark_id
           /\ lastCall.ids[1] = addLog[j].bookmark_id
           /\ i < j
    /\ \E h \in 1..Len(addLog) :
           h \notin LoggedAt(lastCall.vec) /\ h < Len(addLog)

\* C8: search_embeddings returns the ids of the min(k, ntotal) stored vectors
\* nearest to the query, in ascending squared Euclidean distance: the ids are
\* those of distinct adds, no add left out is nearer than one returned; and in
\* the scenario add([1,0]) -> 1, add([0,1]) -> 2, a query nearer to [1,0] with
\* k = 1 returns [1] and the equidistant query [0,0] with k = 2 returns both.
C8_NearestFirst ==
    WellFormedQuery =>
        LET n   == Len(addLog)
            ids == lastCall.ids
        IN  /\ lastCall.ok
            /\ Len(ids) = Min(lastCall.k, n)
            /\ \E J \in [1..Len(ids) -> 1..n] :
                  /\ \A a \in 1..Len(ids) : addLog[J[a]].bookmark_id = ids[a]
                  /\ \A a, b \in 1..Len(ids) : a < b =>
                        J[a] # J[b] /\ LogDist(J[a]) <= LogDist(J[b])
                  /\ \A i \in 1..n : (\A a \in 1..Len(ids) : J[a] # i) =>
                        \A a \in 1..Len(ids) : LogDist(J[a]) <= LogDist(i)
            /\ (/\ n = 2
                /\ addLog[1].bookmark_id = 1 /\ addLog[1].emb = <<1, 0>>
                /\ addLog[2].bookmark_id = 2 /\ addLog[2].emb = <<0, 1>>) =>
                  /\ (lastCall.vec = <<2, 1>> /\ lastCall.k = 1) => ids = <<1>>
                  /\ (lastCall.vec = <<0, 0>> /\ lastCall.k = 2) =>
                        ids \in {<<1, 2>>, <<2, 1>>}

\* C8 witness: the scenario, searched with the equidistant query and k = 2,
\* answered with the later add first.
C8_Witness ==
    /\ WellFormedQuery /\ Len(addLog) = 2
    /\ addLog[1].bookmark_id = 1 /\ addLog[1].emb = <<1, 0>>
    /\ addLog[2].bookmark_id = 2 /\ addLog[2].emb = <<0, 1>>
    /\ lastCall.vec = <<0, 0>> /\ lastCall.k = 2 /\ lastCall.ids = <<2, 1>>

\* C9: search_embeddings returns an empty sequence, not an error, whenever no
\* index file exists or the index holds zero vectors, for every query and k.
C9_EmptyIndexEmptyResult ==
    (lastCall.op = "search" /\ PersistedNtotal = 0) =>
        lastCall.ok /\ lastCall.ids = <<>>

\* C9 witness: a search with k = 2 while no index file exists.
C9_Witness ==
    /\ lastCall.op = "search" /\ faissIndexFile = NoFile
    /\ lastCall.k = 2 /\ lastCall.vec = <<2, 1>> /\ lastCall.ids = <<>>

\* C10: for the pair an add hands to _save_faiss, reloading the saved files with
\* _load_faiss gives the same vectors at the same positions and the same
\* position -> id entries, hence the same search_embeddings outcomes for every
\* query and k.
C10_SaveLoadRoundTrip ==
    (lastCall.op = "add" /\ lastCall.ok) =>
        /\ Persisted = InMemory
        /\ \A q \in Queries, k \in 1..MaxK :
               SearchLoaded(Persisted, q, k) = SearchLoaded(InMemory, q, k)

\* C10 witness: the pair saved by a third add, two stored vectors differing.
C10_Witness ==
    /\ lastCall.op = "add" /\ lastCall.ok /\ Len(addLog) = 3
    /\ addLog[1].emb # addLog[2].emb
    /\ Ntotal(Get(Persisted.index)) = 3

\* ------------------------------------------- claims on process_bookmark runs
\* The calls the run under way has made, and the row of its bookmark.
Events == Range(run.trace)
RunRow == bookmarkRows[run.pk]

\* The calls of a stage that raised.
StageFailures ==
    {<<"extract", "raise">>, <<"embed", "raise">>, <<"auto_tag", "raise">>,
     <<"tag_insert", "raise">>, <<"add", "raise">>}

\* The sources of the run whose extraction returned text.
SourcesRead ==
    {run.srcs[i] : i \in {j \in 1..Len(run.srcs) :
                            j <= Len(run.trace) /\ run.trace[j] = <<"extract", "text">>}}

\* C11: whatever set of source reads, generate_embedding, auto_tag, tag
\* insertion and add_embedding_to_index calls raise in one process_bookmark run,
\* no such exception leaves process_bookmark; the run that returns has tried
\* every source and saved the row, has gone on to generate_embedding and auto_tag
\* if it gathered text and to add_embedding_to_index if the object has an
\* embedding, and the row's text holds the text of every source that was read;
\* with two URLs of which one raised and one returned text, and
\* generate_embedding returning, the row ends with text and an embedding.
C11_BestEffortNeverAbort ==
    /\ run.pc = "failed" => run.trace[Len(run.trace)] \notin StageFailures
    /\ run.pc = "done" =>
          /\ Len(SelectSeq(run.trace, LAMBDA e : e[1] = "extract")) = Len(run.srcs)
          /\ <<"save", "ok">> \in Events
          /\ SourcesRead \subseteq Range(RunRow.text)
          /\ run.full_text # <<>> =>
                /\ \E e \in Events : e[1] = "embed"
                /\ \E e \in Events : e[1] = "auto_tag"
          /\ Truthy(run.obj.embedding) => \E e \in Events : e[1] = "add"
          /\ (/\ run.srcs = <<"u1", "u2">>
              /\ Cardinality(SourcesRead) = 1
              /\ <<"extract", "raise">> \in Events
              /\ <<"embed", "ok">> \in Events) =>
                 RunRow.text # <<>> /\ RunRow.embedding # None

\* C11 witness: a run on two URLs returned although reading u2, auto_tag and
\* add_embedding_to_index all raised; the row has u1's text and its embedding.
C11_Witness ==
    /\ run.pc = "done" /\ run.srcs = <<"u1", "u2">>
    /\ run.trace = <<<<"extract", "text">>, <<"extract", "raise">>,
                     <<"embed", "ok">>, <<"save", "ok">>,
                     <<"auto_tag", "raise">>, <<"add", "raise">>>>
    /\ RunRow.text = <<"u1">> /\ RunRow.embedding = <<1, 0>>

\* C12 (as claimed): a process_bookmark run on a bookmark with no links and no
\* files, new or processed before, gathers no text, leaves the row with no
\* embedding, adds no tags and does not call add_embedding_to_index.
C12_ZeroSourceRun ==
    (run.pc = "done" /\ run.srcs = <<>>) =>
        /\ RunRow.text = <<>>
        /\ RunRow.embedding = None
        /\ bookmarkTags = run.before.bookmarkTags
        /\ \A e \in Events : e[1] # "add"

\* The persisted text, embedding and tags of the run's bookmark are what they
\* were when the run was called.
RowAsBefore ==
    /\ RunRow.text = run.before.row.text
    /\ RunRow.embedding = run.before.row.embedding
    /\ TagRowsOf(bookmarkTags, run.pk) = TagRowsOf(run.before.bookmarkTags, run.pk)

\* C13 (as claimed): when a process_bookmark invocation ends by the process
\* dying or by an exception that leaves it, the bookmark's persisted text,
\* embedding and tags are exactly what they were before the invocation.
C13_CrashLeavesDocumentUnchanged ==
    run.pc \in {"crashed", "failed"} => RowAsBefore

\* The through rows of the run's bookmark, now and when the run was called,
\* and the tag names they stand for.
TagRowsNow == TagRowsOf(bookmarkTags, run.pk)
TagRowsBefore == TagRowsOf(run.before.bookmarkTags, run.pk)
TagNamesNow == TagNamesOf(tagRows, bookmarkTags, run.pk)
TagNamesBefore == TagNamesOf(run.before.tagRows, run.before.bookmarkTags, run.pk)

\* C14: the tagging stage only inserts: the tag rows the bookmark had stay, in
\* place, and no tag row or tag name is ever there twice; once the stage has
\* inserted all the labels auto_tag returned, the bookmark's tags are those it
\* had plus those labels, so a run whose labels the bookmark already has (a
\* second run on the same text with the same classifier output) leaves the Tag
\* table and the bookmark's tag rows as they were.
C14_RetaggingIdempotent ==
    run.pc # "idle" =>
        /\ SubSeq(TagRowsNow, 1, Len(TagRowsBefore)) = TagRowsBefore
        /\ \A i, j \in 1..Len(TagRowsNow) : i # j => TagRowsNow[i] # TagRowsNow[j]
        /\ \A i, j \in 1..Len(tagRows) : i # j => tagRows[i] # tagRows[j]
        /\ (/\ run.pc \in {"faiss", "done"}
            /\ <<"auto_tag", "ok">> \in Events
            /\ <<"tag_insert", "raise">> \notin Events) =>
              /\ TagNamesNow = TagNamesBefore \cup Range(run.out)
              /\ Range(run.out) \subseteq TagNamesBefore =>
                    /\ bookmarkTags = run.before.bookmarkTags
                    /\ tagRows = run.before.tagRows

\* C14 witness: a second run on the same text, auto_tag returning the two
\* labels the bookmark got in the first run.
C14_Witness ==
    /\ run.pc = "done" /\ run.calls = 2
    /\ run.full_text # <<>> /\ run.full_text = run.before.row.text
    /\ run.out = <<"ai", "python">>
    /\ run.trace[Len(run.trace) - 1] = <<"tag_insert", "ok">>
    /\ TagNamesBefore = {"ai", "python"}
    /\ Len(TagRowsNow) = 2

\* C15: an add_embedding_to_index call with a vector whose dimensionality is
\* not that of the existing index raises, and the two files are afterwards
\* what the last add that returned left (the call wrote neither), so a load
\* gives the pair the call loaded.
C15_DimensionMismatchFails ==
    (/\ lastCall.op = "add"
     /\ lastCall.index # None
     /\ Get(lastCall.index).d # Len(lastCall.vec)) =>
        /\ ~lastCall.ok
        /\ addLog # <<>>
        /\ faissIndexFile = addLog[Len(addLog)].indexFile
        /\ vectorMapFile = addLog[Len(addLog)].mapFile
        /\ Persisted = [index |-> lastCall.index, vec_map |-> lastCall.vec_map]

\* C15 witness: a 1-D vector was handed to add with two 2-D vectors stored.
C15_Witness ==
    /\ lastCall.op = "add" /\ ~lastCall.ok
    /\ lastCall.vec = <<1>>
    /\ Len(addLog) = 2 /\ PersistedNtotal = 2
    /\ Get(Persisted.index).d = 2

\* C16 (as claimed): a load that finds a mapping whose entry count differs
\* from the index's vector count reports it: a search that loaded such a pair
\* raises, and an add goes on to its writes only with a pair whose counts
\* matched (after its own row and entry, they still match).
C16_LoadReportsCorruption ==
    \A w \in Workers :
        /\ (/\ pc[w] = "search_return"
            /\ LoadedNtotal(w) # Cardinality(DOMAIN loc[w].vec_map)) => ~loc[w].ok
        /\ pc[w] = "add_write_index" =>
              Ntotal(Get(loc[w].index)) = Cardinality(DOMAIN loc[w].vec_map)

\* The positions in the run's trace of the document writes (the save of the
\* row, the insertions of tag rows) and of the calls of the stages.
DocumentWrites ==
    {i \in 1..Len(run.trace) : run.trace[i] \in {<<"save", "ok">>, <<"tag_insert", "ok">>}}
StageCalls ==
    {i \in 1..Len(run.trace) :
        run.trace[i][1] \in {"extract", "embed", "auto_tag", "add"}}

\* C17 (as claimed): a process_bookmark run that returns has saved the document
\* exactly once, and no document write (the save, a tag insertion) comes
\* before the call of a stage (text gathering, embedding, tagging, indexing).
C17_SingleSaveAfterAllStages ==
    run.pc = "done" =>
        /\ Cardinality({i \in 1..Len(run.trace) : run.trace[i][1] = "save"}) = 1
        /\ \A i \in DocumentWrites, j \in StageCalls : j < i

\* C18 (as claimed): in a process_bookmark run, generate_embedding is called
\* only if text was gathered, and auto_tag and add_embedding_to_index are each
\* called only if generate_embedding returned in this run.
C18_StageGating ==
    /\ (\E e \in Events : e[1] = "embed") => run.full_text # <<>>
    /\ (\E e \in Events : e[1] = "auto_tag") => <<"embed", "ok">> \in Events
    /\ (\E e \in Events : e[1] = "add") => <<"embed", "ok">> \in Events

\* C19 (as claimed): whatever the interleaving of concurrent first calls, the
\* embedding model is loaded at most once in a process, and so is the
\* classifier: one caller loads, the others use that instance.
C19_ModelLoadedOnce ==
    \A fn \in ModelFns : modelCache.loads[fn] <= 1

\* The vectors of the persisted index, in position order.
PersistedVectors ==
    IF faissIndexFile = NoFile THEN <<>> ELSE ReadIndex(Get(faissIndexFile)).xb

\* C20: with the requests run one at a time, no step of upload_bookmark,
\* bookmark_edit (process_bookmark and its add_embedding_to_index),
\* delete_bookmark or delete_category changes or removes a position -> id entry
\* of the persisted mapping or a vector of the persisted index; a step that
\* changes the mapping adds the one entry at the position equal to the old
\* vector count, together with one vector; and a step that deletes bookmarks
\* leaves both files as they are.
C20_AppendOnly ==
    [][/\ PersistedMembers \subseteq PersistedMembers'
       /\ Len(PersistedVectors) <= Len(PersistedVectors')
       /\ SubSeq(PersistedVectors', 1, Len(PersistedVectors)) = PersistedVectors
       /\ PersistedMembers' # PersistedMembers =>
             /\ \E pk \in Pks : PersistedMembers' =
                   PersistedMembers \cup {<<Str(PersistedNtotal), pk>>}
             /\ Len(PersistedVectors') = Len(PersistedVectors) + 1
       /\ ~(DOMAIN bookmarkRows \subseteq DOMAIN bookmarkRows') =>
             UNCHANGED <<faissIndexFile, vectorMapFile>>]_vars

\* C20 witness: both bookmarks that were uploaded have been deleted and no
\* category is left, and the mapping still has the entries of both, at
\* positions 0 and 1.
C20_Witness ==
    /\ DOMAIN bookmarkRows = {} /\ nextPk = 3
    /\ categoryRows = {}
    /\ PersistedMembers = {<<Str(0), 1>>, <<Str(1), 2>>}
    /\ Len(PersistedVectors) = 2

\* The persisted mapping stays within the persisted index: it has no more
\* entries than the index has vectors, and each of its keys is a position of
\* the index. A map file that holds no document has no entries.
MapWithinIndex ==
    /\ Cardinality(PersistedMembers) <= PersistedNtotal
    /\ PersistedKeys \subseteq {Str(p) : p \in 0..(PersistedNtotal - 1)}

\* The persisted pair is mismatched: the mapping does not hold one entry for
\* each vector of the index.
Mismatched == Cardinality(PersistedMembers) # PersistedNtotal

\* C21: with the calls served one at a time and the process free to die inside
\* any of them, the persisted mapping never has more entries than the
\* persisted index has vectors, at every point of every add (the index file is
\* written before the map file, so a crash can only leave vectors of the index
\* without a mapping entry); and once no call is running and the pair is
\* mismatched, which only a crash brings about, the pair is mismatched for
\* ever, whatever adds follow.
C21_CrashLeavesIndexAhead ==
    /\ [](MapWithinIndex)
    /\ []((pc[Server] = "idle" /\ Mismatched) => []Mismatched)

\* C21 witness: the first add died between its two writes, leaving vector 0
\* without an entry; a later add has returned, having written vector 1 and
\* the entry "1", and the pair is still mismatched.
C21_Witness ==
    /\ crashes = 1
    /\ pc[Server] = "idle"
    /\ Len(addLog) = 1
    /\ PersistedNtotal = 2
    /\ PersistedKeys = {Str(1)}
    /\ Mismatched

====
